---- MODULE Spec2Model ----
(***************************************************************************)
(* Model of the 2fapc secret registry (src/server/totpmgr.js) and of the   *)
(* encrypted store it sits on (src/utils/jsenv.js, src/utils/jsenvaes.js). *)
(*                                                                         *)
(* Files are modelled by their parsed JSON content, AES-256-CBC and PBKDF2 *)
(* symbolically: a derived key is the pair (password, salt), a ciphertext  *)
(* remembers the key and IV it was produced under and decrypts only under  *)
(* that key.                                                               *)
(***************************************************************************)
EXTENDS Integers, Sequences, FiniteSets, TLC

\* ---------------------------------------------------------------- bounds
MaxKeys == 2
MaxSalt == 2
MaxClock == 2
MaxIV == 1

Passwords == {"p", "q"}
Salts == 1..MaxSalt
Clock == 1..MaxClock
IVs == {<<i>> : i \in 1..MaxIV}

\* the three files of the registry
KEYFILE == "keyfile"
VALIDATE == "validate"
CONFIG == "config"
\* a key file at another path, as init_encryption(key_file_path, ..) allows
KEYFILE2 == "keyfile2"
KeyFiles == {KEYFILE, KEYFILE2}
Paths == {KEYFILE, VALIDATE, CONFIG, KEYFILE2}

VARIABLES fs, key, config, pending, last, seen, saves

vars == <<fs, key, config, pending, last, seen, saves>>

\* ------------------------------------------------------------ JS values
Null == [t |-> "null"]
EmptyObj == [t |-> "object"]
ValidObj == [t |-> "valid", valid |-> TRUE]
ConfigObj(keys) == [t |-> "config", keys |-> keys]
Throw(e) == [t |-> "throw", err |-> e]
Ret(v) == [t |-> "return", val |-> v]

\* -------------------------------------------------------- file contents
Absent == [kind |-> "absent"]
Trunc == [kind |-> "truncated"]
JSONstringify(v) == [kind |-> "text", json |-> v]
JSONparse(c) == IF c.kind = "text" THEN Ret(c.json) ELSE Throw("SyntaxError")

\* ------------------------------------------------------------ jsenv.js
IOOutcomes == {"ok", "mkdir_fail", "write_fail", "partial"}

write_config_async(f, path, obj, io) ==
  CASE io = "mkdir_fail" -> [fs |-> f, ret |-> FALSE]
    [] io = "write_fail" -> [fs |-> f, ret |-> FALSE]
    [] io = "partial"    -> [fs |-> [f EXCEPT ![path] = Trunc], ret |-> FALSE]
    [] OTHER             -> [fs |-> [f EXCEPT ![path] = JSONstringify(obj)], ret |-> TRUE]

WriteFault(fault) == IF fault = "write_fail" THEN fault ELSE "ok"

read_config_async_rewriting(f, path, default_config, fault) ==
  LET created == write_config_async(f, path, default_config, WriteFault(fault))
      parsed == JSONparse(created.fs[path])
  IN  IF ~created.ret THEN [fs |-> created.fs, ret |-> Null]
      ELSE IF fault = "read_fail" \/ parsed.t = "throw" THEN [fs |-> created.fs, ret |-> Null]
      ELSE [fs |-> created.fs, ret |-> parsed.val]

read_config_async(f, path, default_config, fault) ==
  LET created == IF f[path] = Absent
                 THEN write_config_async(f, path, default_config, WriteFault(fault))
                 ELSE [fs |-> f, ret |-> TRUE]
      parsed == JSONparse(created.fs[path])
  IN  IF ~created.ret THEN [fs |-> created.fs, ret |-> Null]
      ELSE IF fault = "read_fail" \/ parsed.t = "throw" THEN [fs |-> created.fs, ret |-> Null]
      ELSE [fs |-> created.fs, ret |-> parsed.val]

\* ---------------------------------------------------------- jsenvaes.js
derive_key(password, salt_hex) == [t |-> "key", pw |-> password, salt |-> salt_hex]

key_info_of(salt, start) ==
  [t |-> "key_info", algorithm |-> "aes-256-cbc", salt |-> salt, created_at |-> start]

encrypt_data(data, k, iv) ==
  IF k.t # "key" THEN Throw("TypeError")
  ELSE Ret([t |-> "envelope", iv |-> iv,
            data |-> [k |-> k, iv |-> iv, pt |-> JSONstringify(data)]])

decrypt_data(encrypted_data, iv_hex, k) ==
  IF k.t = "key" /\ encrypted_data.k = k /\ encrypted_data.iv = iv_hex
  THEN JSONparse(encrypted_data.pt)
  ELSE Throw("bad decrypt")

read_encrypted_config(f, path, k, fault) ==
  LET r == read_config_async(f, path, EmptyObj, fault)
      d == decrypt_data(r.ret.data, r.ret.iv, k)
  IN  IF r.ret = Null THEN [fs |-> r.fs, ret |-> Null]
      ELSE IF r.ret.t # "envelope" THEN [fs |-> r.fs, ret |-> Null]
      ELSE IF d.t = "throw" THEN [fs |-> r.fs, ret |-> Null]
      ELSE [fs |-> r.fs, ret |-> d.val]

write_encrypted_config(f, path, obj, k, iv, io) ==
  LET encrypted == encrypt_data(obj, k, iv)
  IN  IF encrypted.t = "throw" THEN [fs |-> f, ret |-> FALSE]
      ELSE [fs |-> write_config_async(f, path, encrypted.val, io).fs, ret |-> TRUE]

\* the I/O of one init that is made to fail: creating the key file, reading
\* the validation file, reading the config file
FaultPoints ==
  {<<"none", "none">>, <<"write_fail", KEYFILE>>, <<"read_fail", VALIDATE>>,
   <<"read_fail", CONFIG>>}

FaultAt(fault, at, path) == IF at = path THEN fault ELSE "none"

\* the message of the error a failed verification throws
PasswordInvalid == "Password is invalid or the .validate file is missing"

init_encryption(f, pend, key_file_path, password, salt, start, iv, fault, at) ==
  LET k == derive_key(password, salt)
      r == read_config_async(f, key_file_path, key_info_of(salt, start),
                             FaultAt(fault, at, key_file_path))
      key_info == r.ret
      ndkey == derive_key(password, key_info.salt)
      v == read_encrypted_config(r.fs, VALIDATE, ndkey, FaultAt(fault, at, VALIDATE))
  IN  IF key_info = Null
      THEN [fs |-> r.fs, pending |-> pend, ret |-> Throw("TypeError")]
      ELSE IF key_info.t = "key_info" /\ key_info.created_at = start
      THEN [fs |-> r.fs, pending |-> pend \cup {encrypt_data(ValidObj, k, iv).val},
            ret |-> Ret(k)]
      ELSE IF key_info.t # "key_info"
      THEN [fs |-> r.fs, pending |-> pend, ret |-> Throw("Invalid salt value")]
      ELSE IF v.ret = Null \/ v.ret.t # "valid"
      THEN [fs |-> v.fs, pending |-> pend,
            ret |-> Throw(PasswordInvalid)]
      ELSE [fs |-> v.fs, pending |-> pend, ret |-> Ret(ndkey)]

\* ----------------------------------------------------------- nothing.js
fallback(value, default) == IF value = Null THEN default ELSE value

\* ----------------------------------------------------------- totpmgr.js
Objs ==
  { [name |-> "a", platform |-> "x.com", description |-> "d", key |-> "JBSW", hasRank |-> FALSE, rank |-> 0],
    [name |-> "a", platform |-> "x.com", description |-> "d", key |-> "JBSW", hasRank |-> TRUE, rank |-> 0],
    [name |-> "b", platform |-> "y.com", description |-> "d", key |-> "MFRG", hasRank |-> TRUE, rank |-> 2] }

StoreObjs == {o \in Objs : o.hasRank /\ o.rank = 2}

Truthy(n) == n # 0

entry_of(obj) ==
  [name |-> obj.name, platform |-> obj.platform, description |-> obj.description,
   key |-> obj.key,
   rank |-> IF obj.hasRank /\ Truthy(obj.rank) THEN obj.rank ELSE 1]

Init ==
  /\ fs = [p \in Paths |-> Absent]
  /\ key = Null
  /\ config = ConfigObj(<<>>)
  /\ pending = {}
  /\ last = [op |-> "start"]
  /\ seen = {}
  /\ saves = [jobs |-> <<>>, issued |-> Null]

\* the password the validation token on disk was created with, "" if the
\* file does not hold a token encrypted under the descriptor's salt
TokenPw(f) ==
  LET d == f[KEYFILE]
      v == f[VALIDATE]
  IN  IF /\ d.kind = "text" /\ d.json.t = "key_info"
         /\ v.kind = "text" /\ v.json.t = "envelope"
         /\ v.json.data.k.salt = d.json.salt
         /\ v.json.data.pt = JSONstringify(ValidObj)
      THEN v.json.data.k.pw
      ELSE ""

\* generate_salt() draws 16 random bytes: a salt no key descriptor holds yet
FreshSalts(f) ==
  Salts \ {f[p].json.salt : p \in {q \in Paths : f[q].kind = "text" /\ f[q].json.t = "key_info"}}

\* why a verification against the existing descriptor cannot succeed
Cause(f, password, fault, at) ==
  IF ~(f[KEYFILE].kind = "text" /\ f[KEYFILE].json.t = "key_info") THEN "none"
  ELSE IF f[VALIDATE] = Absent \/ (fault = "read_fail" /\ at = VALIDATE) THEN "storage"
  ELSE IF fault # "none" THEN "none"
  ELSE IF f[VALIDATE] = Trunc THEN "corrupt"
  ELSE IF TokenPw(f) \notin {"", password} THEN "wrong_password"
  ELSE "none"

init(password, salt, start, iv, fault, at) ==
  LET e == init_encryption(fs, pending, KEYFILE, password, salt, start, iv, fault, at)
      ok == e.ret.t = "return"
      c == read_encrypted_config(e.fs, CONFIG, e.ret.val, FaultAt(fault, at, CONFIG))
  IN  /\ salt \in FreshSalts(fs)
      /\ fs' = IF ok THEN c.fs ELSE e.fs
      /\ pending' = e.pending
      /\ key' = IF ok THEN e.ret.val ELSE key
      /\ config' = IF ok THEN fallback(c.ret, config) ELSE config
      /\ last' = [op |-> "init", pw |-> password, fault |-> fault,
                  enc |-> e.ret, ok |-> ok,
                  loaded |-> (ok /\ c.ret # Null),
                  cause |-> IF ok THEN "none" ELSE Cause(fs, password, fault, at),
                  reload |-> IF last.op = "restart" /\ last.afterSave
                                /\ last.pw = password /\ fault = "none"
                             THEN Ret(last.keys) ELSE Null]

save(iv, io) ==
  LET w == write_encrypted_config(fs, CONFIG, config, key, iv, io)
  IN  /\ fs' = w.fs
      /\ last' = [op |-> "save", result |-> w.ret, iv |-> iv]
      /\ UNCHANGED <<key, config, pending>>

add_totp_key(obj) ==
  /\ Len(config.keys) < MaxKeys
  /\ config' = [config EXCEPT !.keys = Append(@, entry_of(obj))]
  /\ last' = [op |-> "add", obj |-> obj]
  /\ UNCHANGED <<fs, key, pending>>

get_totp_info_leaky ==
  [i \in 1..Len(config.keys) |-> config.keys[i]]

get_totp_info ==
  [i \in 1..Len(config.keys) |->
     [name |-> config.keys[i].name, platform |-> config.keys[i].platform,
      description |-> config.keys[i].description, rank |-> config.keys[i].rank]]

list ==
  /\ last' = [op |-> "list", result |-> get_totp_info]
  /\ UNCHANGED <<fs, key, config, pending>>

\* Array.prototype.splice(index, 1), index counted from 0
splice(keys, index) ==
  LET len == Len(keys)
      from == IF index < 0 THEN (IF len + index > 0 THEN len + index ELSE 0)
                ELSE (IF index < len THEN index ELSE len)
  IN  IF from >= len THEN keys
      ELSE [i \in 1..(len - 1) |-> IF i <= from THEN keys[i] ELSE keys[i + 1]]

Indexes == (0 - MaxKeys - 1)..(MaxKeys + 1)

remove_totp_key(index) ==
  /\ config' = [config EXCEPT !.keys = splice(@, index)]
  /\ last' = [op |-> "remove", index |-> index, result |-> Ret("undefined")]
  /\ UNCHANGED <<fs, key, pending>>

\* the members of the object jsenvaes.js exports
jsenv_aes == {"init_encryption", "read_config", "write_config"}

generate(index) ==
  /\ last' = [op |-> "generate", index |-> index,
              result |-> IF index < 0 \/ index >= Len(config.keys) THEN Throw("TypeError")
                         ELSE IF "generate_totp" \notin jsenv_aes THEN Throw("TypeError")
                         ELSE Ret([digits |-> 6, secret |-> config.keys[index + 1].key])]
  /\ UNCHANGED <<fs, key, config, pending>>

\* the write init_encryption started and did not await reaches the disk
validate_write_done(env, io) ==
  /\ env \in pending
  /\ pending' = pending \ {env}
  /\ fs' = write_config_async(fs, VALIDATE, env, io).fs
  /\ last' = [op |-> "validate_write"]
  /\ UNCHANGED <<key, config>>

\* the process exits once nothing is left to do, and is started again
restart ==
  LET afterSave == last.op = "save" /\ last.result
  IN  /\ pending = {}
      /\ key' = Null
      /\ config' = ConfigObj(<<>>)
      /\ last' = [op |-> "restart", afterSave |-> afterSave,
                  pw |-> IF afterSave THEN key.pw ELSE "",
                  keys |-> IF afterSave THEN config.keys ELSE <<>>]
      /\ UNCHANGED <<fs, pending>>

\* the process is killed: writes not yet started are lost, the write of
\* .validate that fs.promises.writeFile had begun leaves a truncated file
crash(midwrite) ==
  /\ midwrite => pending # {}
  /\ fs' = IF midwrite THEN [fs EXCEPT ![VALIDATE] = Trunc] ELSE fs
  /\ pending' = {}
  /\ key' = Null
  /\ config' = ConfigObj(<<>>)
  /\ last' = [op |-> "crash"]

\* the process is killed while save() is inside fs.promises.writeFile
crash_in_save(iv) ==
  /\ key.t = "key"
  /\ fs' = [fs EXCEPT ![CONFIG] = Trunc]
  /\ pending' = {}
  /\ key' = Null
  /\ config' = ConfigObj(<<>>)
  /\ last' = [op |-> "crash_in_write", iv |-> iv]

\* the store: key file lifecycle and persistence; writes may fail, the process
\* may be killed, the clock may read any value, also the one of the first run
\* again; salts and IVs are interchangeable, so the random sources hand out
\* the first unused one, and the first run happens at time 1
Next ==
  \/ /\ \E password \in Passwords, salt \in Salts, start \in Clock :
          /\ \A other \in FreshSalts(fs) : salt <= other
          /\ fs[KEYFILE] = Absent => start = 1
          /\ init(password, salt, start, <<1>>, "none", "none")
     /\ UNCHANGED <<seen, saves>>
  \/ /\ \E io \in IOOutcomes : save(<<1>>, io)
     /\ UNCHANGED <<seen, saves>>
  \/ /\ \E obj \in StoreObjs : add_totp_key(obj)
     /\ UNCHANGED <<seen, saves>>
  \/ /\ remove_totp_key(0)
     /\ UNCHANGED <<seen, saves>>
  \/ /\ \E env \in pending, io \in IOOutcomes : validate_write_done(env, io)
     /\ UNCHANGED <<seen, saves>>
  \/ /\ restart
     /\ UNCHANGED <<seen, saves>>
  \/ /\ \E midwrite \in BOOLEAN : crash(midwrite)
     /\ UNCHANGED <<seen, saves>>
  \/ /\ crash_in_save(<<1>>)
     /\ UNCHANGED <<seen, saves>>

Spec == Init /\ [][Next]_vars

\* the registry over a store whose I/O does not fail and whose clock moves on;
\* the random salt and IV are the first unused ones
NextRegistry ==
  \/ /\ \E password \in Passwords, salt \in Salts, start \in Clock :
          /\ fs[KEYFILE] # Absent => start # fs[KEYFILE].json.created_at
          /\ \A other \in FreshSalts(fs) : salt <= other
          /\ init(password, salt, start, <<1>>, "none", "none")
     /\ UNCHANGED <<seen, saves>>
  \/ /\ save(<<1>>, "ok")
     /\ UNCHANGED <<seen, saves>>
  \/ /\ \E obj \in Objs : add_totp_key(obj)
     /\ UNCHANGED <<seen, saves>>
  \/ /\ list
     /\ UNCHANGED <<seen, saves>>
  \/ /\ \E index \in Indexes : remove_totp_key(index)
     /\ UNCHANGED <<seen, saves>>
  \/ /\ \E index \in Indexes : generate(index)
     /\ UNCHANGED <<seen, saves>>
  \/ /\ \E env \in pending : validate_write_done(env, "ok")
     /\ UNCHANGED <<seen, saves>>
  \/ /\ restart
     /\ UNCHANGED <<seen, saves>>

SpecRegistry == Init /\ [][NextRegistry]_vars

\* the verifications of passwords against the key file, where reads may fail
\* too, with the errors they ended in recorded per cause
NextVerify ==
  \/ /\ \E password \in Passwords, salt \in Salts, start \in Clock, iv \in IVs,
           fa \in FaultPoints :
          init(password, salt, start, iv, fa[1], fa[2])
     /\ seen' = IF last'.cause # "none" THEN seen \cup {<<last'.cause, last'.enc.err>>}
                ELSE seen
     /\ UNCHANGED saves
  \/ /\ \E env \in pending, io \in IOOutcomes : validate_write_done(env, io)
     /\ UNCHANGED <<seen, saves>>
  \/ /\ restart
     /\ UNCHANGED <<seen, saves>>
  \/ /\ \E midwrite \in BOOLEAN : crash(midwrite)
     /\ UNCHANGED <<seen, saves>>

SpecVerify == Init /\ [][NextVerify]_vars

\* ------------------------------------------------- overlapping saves
MaxSaves == 2

\* the number of bytes of a file, counted in entries of the encrypted list
size(c) ==
  IF c.kind = "mixed" THEN c.size
  ELSE IF c.kind = "text" /\ c.json.t = "envelope" /\ c.json.data.pt.json.t = "config"
  THEN 1 + Len(c.json.data.pt.json.keys)
  ELSE 0

\* fs.promises.writeFile writes its data from offset 0 of the file it opened:
\* what another writer has put behind the end of the data stays in the file
overwrite(c, data) ==
  IF size(c) > size(JSONstringify(data)) THEN [kind |-> "mixed", size |-> size(c)]
  ELSE JSONstringify(data)

\* save() up to its first suspension: write_encrypted_config has called
\* encrypt_data, which serialises and encrypts the list as it is now
save_called(iv) ==
  LET encrypted == encrypt_data(config, key, iv)
  IN  /\ Len(saves.jobs) < MaxSaves
      /\ encrypted.t = "return"
      /\ saves' = [jobs |-> Append(saves.jobs, [data |-> encrypted.val, opened |-> FALSE]),
                   issued |-> encrypted.val]
      /\ last' = [op |-> "save_called"]
      /\ UNCHANGED <<fs, key, config, pending>>

\* writeFile of the i-th save in flight opens the file with flag w
save_opened(i) ==
  /\ i \in 1..Len(saves.jobs)
  /\ ~saves.jobs[i].opened
  /\ fs' = [fs EXCEPT ![CONFIG] = Trunc]
  /\ saves' = [saves EXCEPT !.jobs[i].opened = TRUE]
  /\ last' = [op |-> "save_opened"]
  /\ UNCHANGED <<key, config, pending>>

\* writeFile of the i-th save in flight writes its data and save() returns
save_written(i) ==
  /\ i \in 1..Len(saves.jobs)
  /\ saves.jobs[i].opened
  /\ fs' = [fs EXCEPT ![CONFIG] = overwrite(@, saves.jobs[i].data)]
  /\ saves' = [saves EXCEPT !.jobs = [j \in 1..(Len(@) - 1) |->
                                        IF j < i THEN @[j] ELSE @[j + 1]]]
  /\ last' = [op |-> "save_written", result |-> TRUE]
  /\ UNCHANGED <<key, config, pending>>

\* one process whose callers do not wait for a save before the next call;
\* no I/O fails, the clock moves on
NextSaves ==
  \/ /\ \E password \in Passwords, salt \in Salts, start \in Clock :
          /\ saves.jobs = <<>>
          /\ fs[KEYFILE] # Absent => start # fs[KEYFILE].json.created_at
          /\ \A other \in FreshSalts(fs) : salt <= other
          /\ init(password, salt, start, <<1>>, "none", "none")
     /\ UNCHANGED <<seen, saves>>
  \/ /\ \E env \in pending : validate_write_done(env, "ok")
     /\ UNCHANGED <<seen, saves>>
  \/ /\ \E obj \in StoreObjs : add_totp_key(obj)
     /\ UNCHANGED <<seen, saves>>
  \/ /\ remove_totp_key(0)
     /\ UNCHANGED <<seen, saves>>
  \/ /\ save_called(<<1>>)
     /\ UNCHANGED seen
  \/ /\ \E i \in 1..MaxSaves : save_opened(i)
     /\ UNCHANGED seen
  \/ /\ \E i \in 1..MaxSaves : save_written(i)
     /\ UNCHANGED seen

SpecSaves == Init /\ [][NextSaves]_vars

\* ------------------------------------------ key files at several paths
init_encryption_at(key_file_path, password, salt, start, iv) ==
  LET e == init_encryption(fs, pending, key_file_path, password, salt, start, iv,
                           "none", "none")
  IN  /\ fs' = e.fs
      /\ pending' = e.pending
      /\ last' = [op |-> "init_encryption", path |-> key_file_path, pw |-> password,
                  first |-> (fs[key_file_path] = Absent), enc |-> e.ret]
      /\ UNCHANGED <<key, config>>

\* the write of .validate that a first run left behind reaches the disk
token_written(env) ==
  /\ env \in pending
  /\ pending' = pending \ {env}
  /\ fs' = write_config_async(fs, VALIDATE, env, "ok").fs
  /\ last' = [op |-> "token_written", env |-> env]
  /\ UNCHANGED <<key, config>>

\* what init_encryption(key_file_path, password) ends in on the files f, at a
\* time that is not the created_at of the descriptor
verify(f, key_file_path, password) ==
  init_encryption(f, {}, key_file_path, password, 0, 0, <<1>>, "none", "none").ret

\* init_encryption on two key files, the clock moving on
NextPaths ==
  \/ /\ \E path \in KeyFiles, password \in Passwords, salt \in Salts, start \in Clock :
          /\ salt \in FreshSalts(fs) \/ FreshSalts(fs) = {}
          /\ \A other \in FreshSalts(fs) : salt <= other
          /\ fs[path] # Absent => start # fs[path].json.created_at
          /\ init_encryption_at(path, password, salt, start, <<1>>)
     /\ UNCHANGED <<seen, saves>>
  \/ /\ \E env \in pending : token_written(env)
     /\ UNCHANGED <<seen, saves>>

SpecPaths == Init /\ [][NextPaths]_vars

\* ------------------------------------------- plaintext of an envelope
\* the payloads handed to encrypt: null, booleans, a number, strings (one of
\* them spelling a JSON number, one spelling a JSON literal), an array, objects
Payloads ==
  { Null, [t |-> "boolean", b |-> TRUE], [t |-> "number", n |-> 1],
    [t |-> "string", s |-> "abc"], [t |-> "string", s |-> "1"],
    [t |-> "string", s |-> "null"],
    [t |-> "array", items |-> <<1>>], EmptyObj, ValidObj }

NumberText == <<"0", "1">>

\* JSON.stringify: the characters of the text, one token per element
JSON_stringify(v) ==
  CASE v.t = "null"    -> <<"null">>
    [] v.t = "boolean" -> IF v.b THEN <<"true">> ELSE <<"false">>
    [] v.t = "number"  -> <<NumberText[v.n + 1]>>
    [] v.t = "string"  -> <<"Q", v.s, "Q">>
    [] v.t = "array"   -> <<"[">> \o [i \in 1..Len(v.items) |-> NumberText[v.items[i] + 1]] \o <<"]">>
    [] v.t = "valid"   -> <<"{", "Q", "valid", "Q", ":", "true", "}">>
    [] OTHER           -> <<"{", "}">>

\* JSON.parse: the value whose text this is, a SyntaxError for any other text
JSON_parse(text) ==
  IF \E v \in Payloads : JSON_stringify(v) = text
  THEN Ret(CHOOSE v \in Payloads : JSON_stringify(v) = text)
  ELSE Throw("SyntaxError")

\* AES-256-CBC over the characters: createCipheriv(..).update/final and
\* createDecipheriv(..).update/final, which fails on the padding under another key
cipher(text, k, iv) == [k |-> k, iv |-> iv, pt |-> text]

decipher(ct, k, iv) ==
  IF ct.k = k /\ ct.iv = iv THEN Ret(ct.pt) ELSE Throw("bad decrypt")

\* jsenvaes.js: encrypt_data / decrypt_data on the characters of the plaintext
encrypt_data_text(data, k, iv) ==
  [iv |-> iv, data |-> cipher(JSON_stringify(data), k, iv)]

decrypt_data_text(encrypted_data, iv_hex, k) ==
  LET d == decipher(encrypted_data, k, iv_hex)
  IN  IF d.t = "throw" THEN d ELSE JSON_parse(d.val)

\* the second implementation: a string payload is encrypted as it is
encrypt(data, k, iv) ==
  LET jsonStr == IF data.t = "string" THEN <<data.s>> ELSE JSON_stringify(data)
  IN  [iv |-> iv, data |-> cipher(jsonStr, k, iv)]

decrypt(encrypted, k, ivHex) ==
  LET d == decipher(encrypted, k, ivHex)
      parsed == JSON_parse(d.val)
  IN  IF d.t = "throw" \/ parsed.t = "throw" THEN Throw("DecryptFailed") ELSE parsed

CipherKeys == {derive_key(pw, salt) : pw \in Passwords, salt \in Salts}

CipherIVs == {<<i>> : i \in 1..(MaxIV + 1)}

CipherInputs ==
  {[op |-> "input", fn |-> "cipher", p |-> p, k |-> k, iv |-> iv] :
     p \in Payloads, k \in CipherKeys, iv \in CipherIVs}

\* decrypt_data(encrypt_data(p, k), k) with the IV encrypt_data drew
round_trip_data ==
  LET e == encrypt_data_text(last.p, last.k, last.iv)
  IN  /\ last.op = "input" /\ last.fn = "cipher"
      /\ last' = [op |-> "round_trip", impl |-> "encrypt_data", p |-> last.p,
                  k |-> last.k, iv |-> last.iv,
                  result |-> decrypt_data_text(e.data, e.iv, last.k)]
      /\ UNCHANGED <<fs, key, config, pending, seen, saves>>

\* decrypt(encrypt(p, k), k) of the second implementation
round_trip ==
  LET e == encrypt(last.p, last.k, last.iv)
  IN  /\ last.op = "input" /\ last.fn = "cipher"
      /\ last' = [op |-> "round_trip", impl |-> "encrypt", p |-> last.p,
                  k |-> last.k, iv |-> last.iv,
                  result |-> decrypt(e.data, last.k, e.iv)]
      /\ UNCHANGED <<fs, key, config, pending, seen, saves>>

\* ------------------------------------------------- the code generator
\* a counter of up to 64 bits, held as four 16-bit limbs, most significant first
Counters ==
  { <<0, 0, 0, 1>>, <<0, 0, 1, 2>>, <<0, 0, 65535, 65535>>, <<0, 1, 0, 0>>,
    <<0, 1, 2, 772>>, <<31, 65535, 65535, 65535>> }

\* ToUint32: the low 32 bits, as two limbs
ToUint32(counter) == <<counter[3], counter[4]>>

\* counter >>>= 8: the unsigned 32-bit value shifted right by 8 bits
ushr8(counter) ==
  LET u == ToUint32(counter)
  IN  <<0, 0, u[1] \div 256, (u[1] % 256) * 256 + u[2] \div 256>>

\* the loop of generate_totp, i = 7 down to 0, once counter can be assigned
RECURSIVE counter_loop(_, _, _)
counter_loop(counter, counter_bytes, i) ==
  IF i < 0 THEN counter_bytes
  ELSE counter_loop(ushr8(counter),
                    [counter_bytes EXCEPT ![i + 1] = ToUint32(counter)[2] % 256],
                    i - 1)

\* the bytes generate_totp hands to hmac_sha1. counter is declared const, so
\* the assignment counter >>>= 8 throws in the first pass of the loop; where a
\* toolchain has lowered const to var the loop runs on the low 32 bits
generate_totp(counter, lowered) ==
  IF lowered THEN Ret(counter_loop(counter, [i \in 1..8 |-> 0], 7))
  ELSE Throw("TypeError")

\* Buffer.writeBigUInt64BE(BigInt(counter), 0): the high 32 bits, then the low
writeBigUInt64BE(counter) ==
  LET hi == <<counter[1], counter[2]>>
      lo == <<counter[3], counter[4]>>
      be32(w) == <<w[1] \div 256, w[1] % 256, w[2] \div 256, w[2] % 256>>
  IN  be32(hi) \o be32(lo)

\* the bytes the second implementation hands to crypto.createHmac
generate_hmac_input(counter) == Ret(writeBigUInt64BE(counter))

CounterInputs ==
  {[op |-> "input", fn |-> "counter", counter |-> c, lowered |-> l] :
     c \in Counters, l \in BOOLEAN}

counter_bytes_totp ==
  /\ last.op = "input" /\ last.fn = "counter"
  /\ last' = [op |-> "counter_bytes", impl |-> "generate_totp", counter |-> last.counter,
              result |-> generate_totp(last.counter, last.lowered)]
  /\ UNCHANGED <<fs, key, config, pending, seen, saves>>

counter_bytes_generate ==
  /\ last.op = "input" /\ last.fn = "counter"
  /\ last' = [op |-> "counter_bytes", impl |-> "generate", counter |-> last.counter,
              result |-> generate_hmac_input(last.counter)]
  /\ UNCHANGED <<fs, key, config, pending, seen, saves>>

\* ---------------------------------------------------------------- sha1
MaxMsgLen == 130

Messages == {[i \in 1..L |-> 97] : L \in 0..MaxMsgLen}

\* n >>> s for 0 <= n < 2^31: the shift count is taken modulo 32
ushr(n, s) == n \div (2 ^ (s % 32))

\* the block input sha1 builds: message, 0x80, zeros, the length field
sha1_padded(message) ==
  LET msg_len == Len(message)
      pad_len == (ushr(msg_len + 8, 6) + 1) * 64
      len_bits == msg_len * 8
  IN  [j \in 1..pad_len |->
         IF j - 1 >= pad_len - 8
         THEN ushr(len_bits, 56 - (j - 1 - (pad_len - 8)) * 8) % 256
         ELSE IF j - 1 < msg_len THEN message[j]
         ELSE IF j - 1 = msg_len THEN 128
         ELSE 0]

Sha1Inputs == {[op |-> "input", fn |-> "sha1", message |-> m] : m \in Messages}

sha1_pad ==
  /\ last.op = "input" /\ last.fn = "sha1"
  /\ last' = [op |-> "sha1_pad", message |-> last.message,
              padded |-> sha1_padded(last.message)]
  /\ UNCHANGED <<fs, key, config, pending, seen, saves>>

\* ---------------------------------------------------------- decode_b32
MaxB32Len == 3

chars ==
  <<"A", "B", "C", "D", "E", "F", "G", "H", "I", "J", "K", "L", "M", "N", "O", "P",
    "Q", "R", "S", "T", "U", "V", "W", "X", "Y", "Z", "2", "3", "4", "5", "6", "7">>

\* the characters of the input strings: upper and lower case letters of the
\* alphabet, a digit of it, a character outside it, the padding character
B32Chars == {"M", "y", "7", "-", "="}

B32Strings == UNION {[1..n -> B32Chars] : n \in 0..MaxB32Len}

toUpperCase(c) == IF c = "y" THEN "Y" ELSE c

\* chars.indexOf(char)
indexOf(c) ==
  IF \E i \in 1..Len(chars) : chars[i] = c
  THEN (CHOOSE i \in 1..Len(chars) : chars[i] = c) - 1
  ELSE 0 - 1

\* str.replace(/=+$/, "")
RECURSIVE strip_padding(_)
strip_padding(str) ==
  IF Len(str) > 0 /\ str[Len(str)] = "=" THEN strip_padding(SubSeq(str, 1, Len(str) - 1))
  ELSE str

\* while (bits >= 8): one byte leaves the buffer; a write past the end of the
\* Uint8Array is dropped
RECURSIVE drain(_)
drain(st) ==
  IF st.bits < 8 THEN st
  ELSE drain([buf |-> st.buf, bits |-> st.bits - 8, next |-> st.next + 1,
              result |-> IF st.next < Len(st.result)
                         THEN [st.result EXCEPT ![st.next + 1] =
                                 (st.buf \div (2 ^ (st.bits - 8))) % 256]
                         ELSE st.result])

\* for (const char of clean); with at most MaxB32Len characters buf stays
\* below 2^31, where buf <<= 5 does not wrap
RECURSIVE decode_loop(_, _, _)
decode_loop(clean, i, st) ==
  IF i > Len(clean) THEN st.result
  ELSE LET index == indexOf(clean[i])
       IN  IF index = 0 - 1 THEN decode_loop(clean, i + 1, st)
           ELSE decode_loop(clean, i + 1,
                            drain([st EXCEPT !.buf = st.buf * 32 + index,
                                             !.bits = st.bits + 5]))

decode_b32(str) ==
  LET stripped == strip_padding(str)
      clean == [i \in 1..Len(stripped) |-> toUpperCase(stripped[i])]
      length == Len(clean)
  IN  decode_loop(clean, 1,
                  [buf |-> 0, next |-> 0, bits |-> 0,
                   result |-> [i \in 1..((length * 5) \div 8) |-> 0]])

B32Inputs == {[op |-> "input", fn |-> "b32", str |-> x] : x \in B32Strings}

decode ==
  /\ last.op = "input" /\ last.fn = "b32"
  /\ last' = [op |-> "decode", str |-> last.str, result |-> decode_b32(last.str)]
  /\ UNCHANGED <<fs, key, config, pending, seen, saves>>

\* ------------------------------------------- the pure functions, applied
InitPure ==
  /\ fs = [p \in Paths |-> Absent]
  /\ key = Null
  /\ config = ConfigObj(<<>>)
  /\ pending = {}
  /\ seen = {}
  /\ saves = [jobs |-> <<>>, issued |-> Null]
  /\ last \in CipherInputs \cup CounterInputs \cup Sha1Inputs \cup B32Inputs

NextPure ==
  \/ round_trip_data
  \/ round_trip
  \/ counter_bytes_totp
  \/ counter_bytes_generate
  \/ sha1_pad
  \/ decode

SpecPure == InitPure /\ [][NextPure]_vars

\* ------------------------------------------------------------- claims
\* C1: a save that reported success, a restart and an init with the same
\* password: the init succeeds and the list is the one that was saved
C1_RoundTrip ==
  (last.op = "init" /\ last.reload.t = "return")
    => (last.ok /\ config.keys = last.reload.val)

\* C2: against a descriptor and token created with password P, init_encryption
\* with another password returns no key and fails with the invalid-password error
C2_WrongPasswordRejected ==
  [][(last'.op = "init" /\ TokenPw(fs) \notin {"", last'.pw})
       => (/\ last'.enc.t = "throw"
           /\ (last'.fault = "none" => last'.enc.err = PasswordInvalid))]_vars

\* C3: with the token of the first run on disk, init_encryption with the same
\* password returns the key derived from that password and the descriptor's salt
C3_SamePasswordSameKey ==
  [][(last'.op = "init" /\ TokenPw(fs) = last'.pw /\ last'.fault = "none")
       => last'.enc = Ret(derive_key(last'.pw, fs[KEYFILE].json.salt))]_vars

\* C4: a crash during a config write leaves the complete prior content or the
\* complete new content in the target file
C4_AtomicWrite ==
  [][last'.op = "crash_in_write"
       => fs'[CONFIG] \in {fs[CONFIG],
                           JSONstringify(encrypt_data(config, key, last'.iv).val)}]_vars

\* C5: remove(index) with index outside [0, length) leaves the list unchanged
\* and signals an index-out-of-range error
C5_RemoveOutOfRange ==
  [][(last'.op = "remove" /\ (last'.index < 0 \/ last'.index >= Len(config.keys)))
       => (config' = config /\ last'.result = Throw("IndexOutOfRangeError"))]_vars

\* C6: list() returns one record per entry, in order, holding exactly name,
\* platform, description and rank (never the secret), and leaves the list unchanged
C6_ListRedacted ==
  [][last'.op = "list"
       => /\ config' = config
          /\ Len(last'.result) = Len(config.keys)
          /\ \A i \in 1..Len(config.keys) :
               /\ DOMAIN last'.result[i] = {"name", "platform", "description", "rank"}
               /\ \A fld \in DOMAIN last'.result[i] :
                    last'.result[i][fld] = config.keys[i][fld]]_vars

\* an initialised registry that holds two different entries has been listed
C6_Witness ==
  /\ last.op = "list"
  /\ key.t = "key"
  /\ Len(last.result) >= 2
  /\ last.result[1] # last.result[2]

\* C7: save() returns true only if the encrypted list is in the config file
C7_SaveReportsWrite ==
  (last.op = "save" /\ last.result = TRUE) => fs[CONFIG] = JSONstringify(encrypt_data(config, key, last.iv).val)

\* C8: init succeeds without loading a list only when no config file existed
\* before the call (or only the empty default that a first read leaves behind)
C8_FallbackOnlyFirstRun ==
  [][(last'.op = "init" /\ last'.ok /\ ~last'.loaded)
       => fs[CONFIG] \in {Absent, JSONstringify(EmptyObj)}]_vars

\* C9: a wrong password, an unavailable validation file and a corrupted
\* validation file never end in the same error
C9_DistinctErrors ==
  \A a \in seen : \A b \in seen : a[1] # b[1] => a[2] # b[2]

\* C10: after a successful init, generate(index) with 0 <= index < length
\* returns the 6-digit code of the entry at that index
C10_GenerateReturnsCode ==
  (last.op = "generate" /\ key.t = "key"
     /\ last.index >= 0 /\ last.index < Len(config.keys))
    => /\ last.result.t = "return"
       /\ last.result.val.digits = 6
       /\ last.result.val.secret = config.keys[last.index + 1].key

\* C11: for every payload and key, and whatever IV was drawn, decrypting what
\* was encrypted succeeds and returns the payload, in both implementations
C11_EncryptDecryptRoundTrip ==
  last.op = "round_trip" => last.result = Ret(last.p)

\* C13: for every counter, also one of 2^32 or more, the bytes handed to HMAC
\* are the 8-byte big-endian encoding of the whole 64-bit counter
C13_CounterBytes64 ==
  last.op = "counter_bytes"
    => last.result = Ret(<<last.counter[1] \div 256, last.counter[1] % 256,
                           last.counter[2] \div 256, last.counter[2] % 256,
                           last.counter[3] \div 256, last.counter[3] % 256,
                           last.counter[4] \div 256, last.counter[4] % 256>>)

\* C14: the padded input of sha1 is as long as the smallest multiple of 64 that
\* is >= L + 9 and consists of the message, 0x80, zeros and the 64-bit
\* big-endian encoding of 8 * L
C14_Sha1Padding ==
  last.op = "sha1_pad"
    => LET L == Len(last.message)
           n == ((L + 9 + 63) \div 64) * 64
           bits == 8 * L
       IN  /\ Len(last.padded) = n
           /\ \A j \in 1..n :
                last.padded[j] =
                  IF j <= L THEN last.message[j]
                  ELSE IF j = L + 1 THEN 128
                  ELSE IF j <= n - 4 THEN 0
                  ELSE (bits \div (256 ^ (n - j))) % 256

\* C15: decode_b32 of a string is decode_b32 of the string without its
\* characters outside the alphabet: same length, same bytes
C15_InvalidCharsContributeNothing ==
  last.op = "decode"
    => last.result =
         decode_b32(SelectSeq(last.str, LAMBDA c : indexOf(toUpperCase(c)) # 0 - 1))

\* C12: once the key file holds a descriptor, no step changes the file
C12_DescriptorNeverRewritten ==
  [][fs[KEYFILE].kind = "text" => fs'[KEYFILE] = fs[KEYFILE]]_vars

\* an init against an existing descriptor has returned a key derived from a
\* salt of its own, and the descriptor still holds the salt of the first run
C12_Witness ==
  /\ last.op = "init"
  /\ last.enc.t = "return"
  /\ fs[KEYFILE].kind = "text"
  /\ last.enc.val.salt # fs[KEYFILE].json.salt

\* C16: when the init of a first run returns the key, the key file holds the
\* descriptor and the validation file a token that decrypts under that key
C16_TokenWrittenBeforeReturn ==
  [][(last'.op = "init" /\ fs[KEYFILE] = Absent /\ last'.enc.t = "return")
       => /\ fs'[KEYFILE].kind = "text"
          /\ read_encrypted_config(fs', VALIDATE, last'.enc.val, "none").ret = ValidObj]_vars

\* C17: an init that finds a descriptor returns no other key than the one
\* derived from the descriptor's salt, starts no write of a token and leaves
\* an existing validation file as it is, whatever the clock reads
C17_ExistingDescriptorVerifies ==
  [][(last'.op = "init" /\ fs[KEYFILE].kind = "text" /\ fs[KEYFILE].json.t = "key_info")
       => /\ last'.enc.t = "return"
               => last'.enc.val = derive_key(last'.pw, fs[KEYFILE].json.salt)
          /\ pending' \subseteq pending
          /\ fs[VALIDATE] # Absent => fs'[VALIDATE] = fs[VALIDATE]]_vars

\* C19: add appends one entry with the supplied name, platform, description
\* and secret, with the supplied rank if there is one (0 too) and 1 if there
\* is none; the earlier entries stay as they are, duplicates are accepted
C19_AddAppends ==
  [][last'.op = "add"
       => /\ Len(config'.keys) = Len(config.keys) + 1
          /\ SubSeq(config'.keys, 1, Len(config.keys)) = config.keys
          /\ config'.keys[Len(config'.keys)] =
               [name |-> last'.obj.name, platform |-> last'.obj.platform,
                description |-> last'.obj.description, key |-> last'.obj.key,
                rank |-> IF last'.obj.hasRank THEN last'.obj.rank ELSE 1]]_vars

\* C20: a first run of init_encryption on key file B, and the token write it
\* started, leave every init_encryption(A, P) that succeeded on another key
\* file A succeeding with the same key
C20_KeyFilesIndependent ==
  [][\A A \in KeyFiles : \A B \in KeyFiles \ {A} :
       (\/ last'.op = "init_encryption" /\ last'.path = B /\ last'.first
        \/ /\ last'.op = "token_written"
           /\ fs[B].kind = "text"
           /\ last'.env.data.k.salt = fs[B].json.salt)
         => \A P \in Passwords :
              verify(fs, A, P).t = "return" => verify(fs', A, P) = verify(fs, A, P)]_vars

\* C18: once no save is in flight, the config file holds the list as it was
\* when the save issued last was called, whole
C18_LastSaveWins ==
  (saves.jobs = <<>> /\ saves.issued # Null)
    => read_encrypted_config(fs, CONFIG, saves.issued.data.k, "none").ret
         = saves.issued.data.pt.json
====
